---- MODULE Spec2Model ----
(***************************************************************************)
(* The x402 payment gate of the prediction API                             *)
(* (packages/prediction-api/app): the paywall decorator, the bulk          *)
(* endpoint's inline gate, the 402 exception handler and the payment       *)
(* request builder.                                                        *)
(*                                                                         *)
(* Text is modelled by TLA+ strings.  A price, a Python float in the       *)
(* source, is modelled by its value in millionths (0.01 is 10000): every   *)
(* price of the catalogue and every bulk total of 1..10 assets is a        *)
(* multiple of 0.01 for which float arithmetic, str() and                  *)
(* int(x * 1_000_000) give the exact decimal result.                       *)
(***************************************************************************)
EXTENDS Integers, Sequences, FiniteSets, TLC

\* Number of HTTP requests that arrive in one behaviour.
MaxRequests == 2

\* Python's None.
None == "<None>"

\* Python truthiness of an Optional[str]: None and "" are falsy.
Falsy(v) == v = None \/ v = ""

----------------------------------------------------------------------------
(* Text helpers.                                                           *)

StartsWith(s, p) == Len(s) >= Len(p) /\ SubSeq(s, 1, Len(p)) = p

RECURSIVE Rep(_, _)
Rep(c, n) == IF n = 0 THEN "" ELSE c \o Rep(c, n - 1)

Digit(d) ==
    CASE d = 0 -> "0" [] d = 1 -> "1" [] d = 2 -> "2" [] d = 3 -> "3"
      [] d = 4 -> "4" [] d = 5 -> "5" [] d = 6 -> "6" [] d = 7 -> "7"
      [] d = 8 -> "8" [] d = 9 -> "9"

\* str(n) of a non-negative int.
RECURSIVE IntStr(_)
IntStr(n) == IF n < 10 THEN Digit(n) ELSE IntStr(n \div 10) \o Digit(n % 10)

\* One unit of the price in the asset's smallest unit ("USDC has 6 decimals").
USDC_UNITS == 1000000

RECURSIVE StripZeros(_)
StripZeros(s) ==
    IF Len(s) > 1 /\ SubSeq(s, Len(s), Len(s)) = "0"
    THEN StripZeros(SubSeq(s, 1, Len(s) - 1))
    ELSE s

\* str(x) of a float x >= 0 given in millionths: "0.01", "0.1", "10.0".
FloatStr(micro) ==
    LET frac == IntStr(micro % USDC_UNITS)
    IN  IntStr(micro \div USDC_UNITS) \o "." \o
        StripZeros(Rep("0", 6 - Len(frac)) \o frac)

\* str(int(amount * 1_000_000)) of a float amount given in millionths.
IntOfAmountStr(micro) == IntStr(micro)

----------------------------------------------------------------------------
(* config.py: the settings the gate reads.                                 *)

\* Networks a configuration names in the modelled behaviours.
Networks == {"base", "ethereum"}

\* The default of x402_network.
DefaultNetwork == "base"

\* Settings(): x402_recipient_address and x402_token keep their defaults.
Settings(enabled, debug, network) ==
    [x402_enabled           |-> enabled,
     debug                  |-> debug,
     x402_network           |-> network,
     x402_recipient_address |-> "0x0000000000000000000000000000000000000000",
     x402_token             |-> "USDC"]

SettingsSet == {Settings(e, d, n) : e \in BOOLEAN, d \in BOOLEAN, n \in Networks}

\* The configurations of the served application: gate and debug either way,
\* the network left at its default.
DeployedSettings == {Settings(e, d, DefaultNetwork) : e \in BOOLEAN, d \in BOOLEAN}

----------------------------------------------------------------------------
(* middleware/x402.py                                                      *)

\* `a or b` on Optional[str].
Or(a, b) == IF Falsy(a) THEN b ELSE a

\* X402PaymentRequired.__init__
X402PaymentRequired(settings, amount, description, network, recipient, token) ==
    [cls         |-> "X402PaymentRequired",
     amount      |-> amount,
     description |-> description,
     network     |-> Or(network, settings.x402_network),
     recipient   |-> Or(recipient, settings.x402_recipient_address),
     token       |-> Or(token, settings.x402_token)]

\* fastapi.HTTPException(status_code, detail)
HTTPException(status_code, detail) ==
    [cls |-> "HTTPException", status_code |-> status_code, detail |-> detail]

\* The exception of a failed attribute lookup (object without `headers`).
AttributeError == [cls |-> "AttributeError"]

\* _validate_payment_proof(proof, expected_amount); expected_amount is never
\* read, and no operation of the try block can raise on a str.
\* _validate_payment_proof without the development-mode branch.
_validate_payment_proof_ignoring_debug(settings, proof, expected_amount) ==
    IF Falsy(proof) THEN FALSE
    ELSE IF StartsWith(proof, "0x") /\ Len(proof) = 66 THEN TRUE
    ELSE IF Len(proof) > 20 THEN TRUE
    ELSE FALSE

\* _validate_payment_proof accepting transaction hashes only.
_validate_payment_proof_hash_only(settings, proof, expected_amount) ==
    IF Falsy(proof) THEN FALSE
    ELSE IF settings.debug \/ ~settings.x402_enabled THEN TRUE
    ELSE IF StartsWith(proof, "0x") /\ Len(proof) = 66 THEN TRUE
    ELSE FALSE

\* _validate_payment_proof refusing a proof for more than the price of the
\* direction prediction.
_validate_payment_proof_capping_amount(settings, proof, expected_amount) ==
    IF Falsy(proof) THEN FALSE
    ELSE IF settings.debug \/ ~settings.x402_enabled THEN TRUE
    ELSE IF expected_amount > 10000 THEN FALSE
    ELSE IF StartsWith(proof, "0x") /\ Len(proof) = 66 THEN TRUE
    ELSE IF Len(proof) > 20 THEN TRUE
    ELSE FALSE

\* _validate_payment_proof without its test for an empty proof.
_validate_payment_proof_accepting_empty(settings, proof, expected_amount) ==
    IF settings.debug \/ ~settings.x402_enabled THEN TRUE
    ELSE IF StartsWith(proof, "0x") /\ Len(proof) = 66 THEN TRUE
    ELSE IF Len(proof) > 20 THEN TRUE
    ELSE FALSE

_validate_payment_proof(settings, proof, expected_amount) ==
    IF Falsy(proof) THEN FALSE
    ELSE IF settings.debug \/ ~settings.x402_enabled THEN TRUE
    ELSE IF StartsWith(proof, "0x") /\ Len(proof) = 66 THEN TRUE
    ELSE IF Len(proof) > 20 THEN TRUE
    ELSE FALSE

\* _get_chain_id
_get_chain_id(network) ==
    CASE network = "base"         -> 8453
      [] network = "base-sepolia" -> 84532
      [] network = "ethereum"     -> 1
      [] network = "arbitrum"     -> 42161
      [] network = "optimism"     -> 10
      [] network = "polygon"      -> 137
      [] OTHER                    -> 8453

\* _get_token_address
_get_token_address(settings) ==
    CASE settings.x402_network = "base"     -> "0x833589fCD6eDb6E08f4c7C32D4f71b54bdA02913"
      [] settings.x402_network = "ethereum" -> "0xA0b86991c6218b36c1d19D4a2e9Eb0cE3606eB48"
      [] settings.x402_network = "arbitrum" -> "0xaf88d065e77c8cC2239327C5EDb3A432268e5831"
      [] settings.x402_network = "optimism" -> "0x0b2C639c533813f4Aa9D7837CAf62653d097Ff85"
      [] settings.x402_network = "polygon"  -> "0x3c499c542cEF5E3811e1192ce70d8cC03d5c3359"
      [] OTHER                              -> "0x833589fCD6eDb6E08f4c7C32D4f71b54bdA02913"

\* The table inside _get_chain_id.
chain_ids ==
    ("base" :> 8453) @@ ("base-sepolia" :> 84532) @@ ("ethereum" :> 1)
      @@ ("arbitrum" :> 42161) @@ ("optimism" :> 10) @@ ("polygon" :> 137)

\* The table inside _get_token_address.
usdc_addresses ==
    ("base" :> "0x833589fCD6eDb6E08f4c7C32D4f71b54bdA02913")
      @@ ("ethereum" :> "0xA0b86991c6218b36c1d19D4a2e9Eb0cE3606eB48")
      @@ ("arbitrum" :> "0xaf88d065e77c8cC2239327C5EDb3A432268e5831")
      @@ ("optimism" :> "0x0b2C639c533813f4Aa9D7837CAf62653d097Ff85")
      @@ ("polygon" :> "0x3c499c542cEF5E3811e1192ce70d8cC03d5c3359")

\* x402/networks.py
EVM_NETWORK_TO_CHAIN_ID ==
    ("base-sepolia" :> 84532) @@ ("base" :> 8453)
      @@ ("avalanche-fuji" :> 43113) @@ ("avalanche" :> 43114)

\* Default of generate_payment_request's validity_seconds.
DefaultValiditySeconds == 300

\* generate_payment_request(amount, resource, description, validity_seconds)
generate_payment_request(settings, amount, resource, description, validity_seconds) ==
    [x402_version |-> 1,
     accepts |-> <<
       [scheme            |-> "exact",
        network           |-> "eip155:" \o IntStr(_get_chain_id(settings.x402_network)),
        maxAmountRequired |-> IntOfAmountStr(amount),
        resource          |-> resource,
        description       |-> description,
        mimeType          |-> "application/json",
        payTo             |-> settings.x402_recipient_address,
        maxTimeoutSeconds |-> validity_seconds,
        asset             |-> "eip155:" \o IntStr(_get_chain_id(settings.x402_network))
                                \o "/erc20:" \o _get_token_address(settings)] >>]

----------------------------------------------------------------------------
(* Python objects the handlers receive.                                    *)

\* None where an object is expected.
NoObject == [cls |-> "NoneType"]

\* starlette Request: its headers (a set of <<lower-case name, value>>) and URL.
HttpRequest(headers, url) == [cls |-> "Request", headers |-> headers, url |-> url]

\* Header names are case-insensitive.
Lower(name) == IF name = "X-402-Payment" THEN "x-402-payment" ELSE name

\* request.headers.get(name)
HeadersGet(headers, name) ==
    IF \E h \in headers : h[1] = Lower(name)
    THEN (CHOOSE h \in headers : h[1] = Lower(name))[2]
    ELSE None

\* What a call produces: a returned value or a raised exception, with the
\* number of calls of the protected operation, of _validate_payment_proof and
\* of an on-chain verification made on the way.
Returned(value, calls, validations) ==
    [kind |-> "return", value |-> value, exc |-> NoObject,
     calls |-> calls, validations |-> validations, chain_queries |-> 0]

Raised(exc, calls, validations) ==
    [kind |-> "raise", value |-> NoObject, exc |-> exc,
     calls |-> calls, validations |-> validations, chain_queries |-> 0]

\* `await func(*args, **kwargs)` inside a try block that answers a failure
\* of func like a failed validation.
Call_in_try(func_outcome, validations) ==
    IF func_outcome.kind = "raise"
    THEN Raised(HTTPException(402, "Invalid payment proof"), func_outcome.calls, validations)
    ELSE [func_outcome EXCEPT !.validations = validations]

\* `await func(*args, **kwargs)` inside the wrapper: func's own outcome, with
\* the validations the wrapper made before it.
Call(func_outcome, validations) ==
    [func_outcome EXCEPT !.validations = validations]

\* The wrapper's search for the Request object: the first positional argument
\* that is a Request, else the keyword argument named "request".
FindRequest(args, kwargs) ==
    LET hits == {i \in 1..Len(args) : args[i].cls = "Request"}
    IN  IF hits # {}
        THEN args[CHOOSE i \in hits : \A j \in hits : i <= j]
        ELSE IF "request" \in DOMAIN kwargs THEN kwargs["request"] ELSE NoObject

\* The wrapper without its early return for a disabled gate.
wrapper_ignoring_x402_enabled(settings, amount, description, network, recipient, token, func_outcome, args, kwargs) ==
    LET request == FindRequest(args, kwargs)
    IN  IF request # NoObject /\ request.cls # "Request"
        THEN Raised(AttributeError, 0, 0)
        ELSE
          LET first == IF request # NoObject
                       THEN HeadersGet(request.headers, "X-402-Payment")
                       ELSE None
              payment_proof ==
                       IF request # NoObject /\ Falsy(first)
                       THEN HeadersGet(request.headers, "x-402-payment")
                       ELSE first
          IN  IF Falsy(payment_proof)
              THEN Raised(X402PaymentRequired(settings, amount, description,
                                              network, recipient, token), 0, 0)
              ELSE IF ~_validate_payment_proof(settings, payment_proof, amount)
              THEN Raised(HTTPException(402, "Invalid payment proof"), 0, 1)
              ELSE Call(func_outcome, 1)

\* x402_paywall(amount, description, network, recipient, token)(func)(*args, **kwargs)
\* func_outcome is what func(*args, **kwargs) produces when it is called.
wrapper(settings, amount, description, network, recipient, token, func_outcome, args, kwargs) ==
    LET request == FindRequest(args, kwargs)
    IN  IF ~settings.x402_enabled THEN Call(func_outcome, 0)
        ELSE IF request # NoObject /\ request.cls # "Request"
             THEN Raised(AttributeError, 0, 0)   \* request.headers
        ELSE
          LET first == IF request # NoObject
                       THEN HeadersGet(request.headers, "X-402-Payment")
                       ELSE None
              payment_proof ==
                       IF request # NoObject /\ Falsy(first)
                       THEN HeadersGet(request.headers, "x-402-payment")
                       ELSE first
          IN  IF Falsy(payment_proof)
              THEN Raised(X402PaymentRequired(settings, amount, description,
                                              network, recipient, token), 0, 0)
              ELSE IF ~_validate_payment_proof(settings, payment_proof, amount)
              THEN Raised(HTTPException(402, "Invalid payment proof"), 0, 1)
              ELSE Call(func_outcome, 1)

----------------------------------------------------------------------------
(* main.py: request models, pricing, the 402 handler and the endpoints.    *)

SupportedAsset == {"BTC", "ETH", "SOL", "ARB", "AVAX", "MATIC", "LINK", "UNI", "AAVE", "OP"}

Timeframe == {"1h", "4h", "1d", "1w"}

Strategy == {"momentum", "mean_reversion", "trend_following", "custom"}

BulkTypes == {"direction", "target", "confidence", "full"}

\* BulkPredictionRequest.assets: Field(min_length=1, max_length=10)
MinBulkAssets == 1
MaxBulkAssets == 10

\* PRICING, in millionths of the float prices 0.01, 0.05, 0.02, 0.10, 0.01, 0.50.
PRICING ==
    [direction |-> 10000, target |-> 50000, confidence |-> 20000,
     full |-> 100000, bulk_per_asset |-> 10000, backtest |-> 500000]

IsDigit(c) == c \in {"0", "1", "2", "3", "4", "5", "6", "7", "8", "9"}

\* The pattern ^\d{4}-\d{2}-\d{2}$ of BacktestRequest's dates.
DatePattern(d) ==
    /\ Len(d) = 10
    /\ \A i \in {1, 2, 3, 4, 6, 7, 9, 10} : IsDigit(SubSeq(d, i, i))
    /\ SubSeq(d, 5, 5) = "-" /\ SubSeq(d, 8, 8) = "-"

\* The request-body model FastAPI builds from the JSON body, or NoObject when
\* validation fails (answered 422 before the endpoint function is called).
PredictionRequest(json) ==
    IF json.asset \in SupportedAsset /\ json.timeframe \in Timeframe
    THEN [cls |-> "PredictionRequest", asset |-> json.asset, timeframe |-> json.timeframe]
    ELSE NoObject

BulkPredictionRequest(json) ==
    IF /\ Len(json.assets) >= MinBulkAssets /\ Len(json.assets) <= MaxBulkAssets
       /\ \A i \in 1..Len(json.assets) : json.assets[i] \in SupportedAsset
       /\ json.timeframe \in Timeframe
       /\ json.type \in BulkTypes
    THEN [cls |-> "BulkPredictionRequest", assets |-> json.assets,
          timeframe |-> json.timeframe, type |-> json.type]
    ELSE NoObject

BacktestRequest(json) ==
    IF /\ json.asset \in SupportedAsset /\ json.strategy \in Strategy
       /\ DatePattern(json.start_date) /\ DatePattern(json.end_date)
    THEN [cls |-> "BacktestRequest", asset |-> json.asset, strategy |-> json.strategy,
          start_date |-> json.start_date, end_date |-> json.end_date]
    ELSE NoObject

\* payment_required_handler(request, exc)
payment_required_handler(request, exc) ==
    [status  |-> 402,
     body    |-> [error        |-> "Payment Required",
                  x402_version |-> 1,
                  accepts      |-> <<
                    [scheme            |-> "exact",
                     network           |-> exc.network,
                     maxAmountRequired |-> FloatStr(exc.amount),
                     resource          |-> request.url,
                     description       |-> exc.description,
                     mimeType          |-> "application/json",
                     payTo             |-> exc.recipient,
                     maxTimeoutSeconds |-> 300,
                     asset             |-> exc.token] >>],
     headers |-> {<<"X-402-Version", "1">>, <<"X-402-Price", FloatStr(exc.amount)>>}]

----------------------------------------------------------------------------
(* models/lstm.py as the endpoints use it: the shape of a result and the   *)
(* inputs on which the protected operation fails.                          *)

DigitVal(c) == CHOOSE d \in 0..9 : Digit(d) = c

Num2(s) == DigitVal(SubSeq(s, 1, 1)) * 10 + DigitVal(SubSeq(s, 2, 2))

Num4(s) == Num2(SubSeq(s, 1, 2)) * 100 + Num2(SubSeq(s, 3, 4))

DaysInMonth(y, m) ==
    IF m = 2
    THEN (IF (y % 4 = 0 /\ y % 100 # 0) \/ y % 400 = 0 THEN 29 ELSE 28)
    ELSE IF m \in {4, 6, 9, 11} THEN 30 ELSE 31

\* datetime.strptime(d, "%Y-%m-%d") succeeds (d already matches DatePattern).
StrptimeOk(d) ==
    LET y  == Num4(SubSeq(d, 1, 4))
        m  == Num2(SubSeq(d, 6, 7))
        dd == Num2(SubSeq(d, 9, 10))
    IN  y >= 1 /\ m \in 1..12 /\ dd >= 1 /\ dd <= DaysInMonth(y, m)

\* LSTMPredictor.predict_<type>(asset, timeframe): the identifying fields of
\* the result (the simulated figures are left out).
Prediction(type, asset, timeframe) ==
    [type |-> type, asset |-> asset, timeframe |-> timeframe]

\* LSTMPredictor.run_backtest: strptime raises ValueError on a date that
\* matches the pattern but is no calendar date.
run_backtest_raises(request) ==
    ~StrptimeOk(request.start_date) \/ ~StrptimeOk(request.end_date)

----------------------------------------------------------------------------
(* The endpoint functions of main.py, before decoration.                   *)

PredictionEndpoints == {"direction", "target", "confidence", "full"}

PaywalledEndpoints == PredictionEndpoints \cup {"backtest"}

PricedEndpoints == PaywalledEndpoints \cup {"bulk"}

\* predict_direction, predict_target, predict_confidence, predict_full
predict(type, request) ==
    Returned([success |-> TRUE,
              prediction |-> Prediction(type, request.asset, request.timeframe)],
             1, 0)

\* run_backtest
run_backtest(request) ==
    IF run_backtest_raises(request)
    THEN Raised(HTTPException(500, "ValueError"), 1, 0)
    ELSE Returned([success |-> TRUE,
                   backtest |-> [asset |-> request.asset, strategy |-> request.strategy]],
                  1, 0)

\* predict_bulk charging the per-asset price once, whatever the list.
predict_bulk_flat_price(settings, request, req) ==
    LET total_cost    == PRICING.bulk_per_asset
        payment_proof == HeadersGet(req.headers, "X-402-Payment")
        names         == {request.assets[i] : i \in 1..Len(request.assets)}
    IN  IF Falsy(payment_proof) /\ settings.x402_enabled
        THEN Raised(X402PaymentRequired(settings, total_cost,
                      "Bulk prediction for " \o IntStr(Len(request.assets)) \o " assets",
                      None, None, None), 0, 0)
        ELSE Returned([success     |-> TRUE,
                       predictions |-> [a \in names |->
                                          Prediction(request.type, a, request.timeframe)],
                       total_cost  |-> total_cost,
                       asset_count |-> Len(request.assets)],
                      1, 0)

\* predict_bulk(request, req): the inline gate and the protected loop.
predict_bulk(settings, request, req) ==
    LET total_cost    == PRICING.bulk_per_asset * Len(request.assets)
        payment_proof == HeadersGet(req.headers, "X-402-Payment")
        names         == {request.assets[i] : i \in 1..Len(request.assets)}
    IN  IF Falsy(payment_proof) /\ settings.x402_enabled
        THEN Raised(X402PaymentRequired(settings, total_cost,
                      "Bulk prediction for " \o IntStr(Len(request.assets)) \o " assets",
                      None, None, None), 0, 0)
        ELSE Returned([success     |-> TRUE,
                       predictions |-> [a \in names |->
                                          Prediction(request.type, a, request.timeframe)],
                       total_cost  |-> total_cost,
                       asset_count |-> Len(request.assets)],
                      1, 0)

\* The description each decorator is given.
PaywallDescription(endpoint) ==
    CASE endpoint = "direction"  -> "Price direction prediction"
      [] endpoint = "target"     -> "Price target prediction"
      [] endpoint = "confidence" -> "Model confidence score"
      [] endpoint = "full"       -> "Full prediction report"
      [] endpoint = "backtest"   -> "Strategy backtesting"

\* The decorated endpoint as FastAPI calls it: no positional arguments, the
\* parsed body under the keyword "request" (the name of the function's only
\* parameter).
paywalled(settings, endpoint, request) ==
    wrapper(settings, PRICING[endpoint], PaywallDescription(endpoint), None, None, None,
            IF endpoint = "backtest" THEN run_backtest(request)
                                     ELSE predict(endpoint, request),
            <<>>, [request |-> request])

----------------------------------------------------------------------------
(* The application as FastAPI runs it: body validation, the endpoint call  *)
(* and the translation of its outcome into an HTTP response.               *)

Path(endpoint) == IF endpoint = "backtest" THEN "/backtest" ELSE "/predict/" \o endpoint

Url(endpoint) == "http://testserver" \o Path(endpoint)

\* The body model of the endpoint's first parameter.
BodyModel(endpoint, json) ==
    CASE endpoint \in PredictionEndpoints -> PredictionRequest(json)
      [] endpoint = "bulk"                -> BulkPredictionRequest(json)
      [] endpoint = "backtest"            -> BacktestRequest(json)

\* Outcome with the payment gate ahead of body validation: a request without
\* proof is challenged before its body is looked at.
Outcome_gate_first(settings, r) ==
    LET model == BodyModel(r.endpoint, r.json)
        req   == HttpRequest(r.headers, Url(r.endpoint))
    IN  IF settings.x402_enabled /\ Falsy(HeadersGet(r.headers, "X-402-Payment"))
        THEN Raised(X402PaymentRequired(settings, PRICING.direction, "Payment Required",
                                        None, None, None), 0, 1)
        ELSE IF model = NoObject
        THEN Raised(HTTPException(422, "Unprocessable Entity"), 0, 0)
        ELSE IF r.endpoint = "bulk"
        THEN predict_bulk(settings, model, req)
        ELSE paywalled(settings, r.endpoint, model)

\* What handling a request produces; a body that fails validation never
\* reaches the endpoint function.
Outcome(settings, r) ==
    LET model == BodyModel(r.endpoint, r.json)
        req   == HttpRequest(r.headers, Url(r.endpoint))
    IN  IF model = NoObject
        THEN Raised(HTTPException(422, "Unprocessable Entity"), 0, 0)
        ELSE IF r.endpoint = "bulk"
        THEN predict_bulk(settings, model, req)
        ELSE paywalled(settings, r.endpoint, model)

\* The HTTP response of an outcome: the returned value as JSON, the
\* registered handler for X402PaymentRequired, FastAPI's {"detail": ...} for
\* an HTTPException, and a bare 500 for any other exception.
Response(r, outcome) ==
    IF outcome.kind = "return"
    THEN [status |-> 200, body |-> outcome.value, headers |-> {}]
    ELSE CASE outcome.exc.cls = "X402PaymentRequired" ->
                payment_required_handler(HttpRequest(r.headers, Url(r.endpoint)), outcome.exc)
           [] outcome.exc.cls = "HTTPException" ->
                [status  |-> outcome.exc.status_code,
                 body    |-> [detail |-> outcome.exc.detail],
                 headers |-> {}]
           [] OTHER ->
                [status |-> 500, body |-> [text |-> "Internal Server Error"], headers |-> {}]

----------------------------------------------------------------------------
(* Requests of the modelled behaviours.                                    *)

\* A transaction-hash proof: "0x" and 64 hex characters.
TxHash == "0x" \o Rep("a", 64)

\* Header values sent: one that fails validation and one that passes.
ProofTexts == {"abc", TxHash}

NoHeaders == {}

WithProof(p) == {<<"x-402-payment", p>>}

HeaderSets == {NoHeaders} \cup {WithProof(p) : p \in ProofTexts}

PredictionJson == {[asset |-> a, timeframe |-> "1d"] : a \in {"BTC", "INVALID"}}

BulkJson ==
    {[assets |-> l, timeframe |-> "1d", type |-> "direction"] :
        l \in {<<"BTC">>, <<"BTC", "ETH">>, <<"BTC", "ETH", "BTC">>,
               [i \in 1..(MaxBulkAssets + 1) |-> "BTC"]}}

\* The date that is no calendar date, as sent in BacktestJson.
BadDate == "2025-13-01"

BacktestJson ==
    {[asset |-> "BTC", strategy |-> "momentum", start_date |-> d, end_date |-> "2025-12-31"] :
        d \in {"2025-01-01", BadDate}}

JsonOf(endpoint) ==
    CASE endpoint \in PredictionEndpoints -> PredictionJson
      [] endpoint = "bulk"                -> BulkJson
      [] endpoint = "backtest"            -> BacktestJson

\* The requests sent.  Every priced endpoint is called without header and
\* with TxHash; the header that fails validation goes to one endpoint of each
\* kind (/predict/direction, /predict/bulk with one asset, /backtest).  A
\* body outside the model of its endpoint is sent on /predict/direction and
\* /predict/bulk (the other endpoints validate with the same classes), and
\* it and the failing backtest carry TxHash, by which the gate would let them
\* pass.
Requests ==
    {r \in UNION {[endpoint : {e}, headers : HeaderSets, json : JsonOf(e)] : e \in PricedEndpoints} :
        /\ BodyModel(r.endpoint, r.json) = NoObject => r.endpoint \in {"direction", "bulk"}
        /\ (BodyModel(r.endpoint, r.json) = NoObject
              \/ (r.endpoint = "backtest" /\ r.json.start_date = BadDate))
            => r.headers = WithProof(TxHash)
        /\ r.headers = WithProof("abc")
            => /\ r.endpoint \in {"direction", "bulk", "backtest"}
               /\ r.endpoint = "bulk" => Len(r.json.assets) = 1}

----------------------------------------------------------------------------
(* x402/encoding.py.  Text is a sequence of code points, bytes a sequence   *)
(* of octets; a str and a bytes object are never equal.                     *)

Str(cps) == [type |-> "str", items |-> cps]

Bytes(bs) == [type |-> "bytes", items |-> bs]

\* An exception leaving a function, by its class.
Raise(cls) == [type |-> "raise", items |-> <<>>, cls |-> cls]

IsRaise(v) == v.type = "raise"

\* str.encode("utf-8") of one code point; <<>> for a surrogate, which has no
\* encoding.
Utf8EncodeChar(cp) ==
    CASE cp < 128                   -> <<cp>>
      [] cp >= 128 /\ cp < 2048     -> <<192 + (cp \div 64), 128 + (cp % 64)>>
      [] cp >= 55296 /\ cp <= 57343 -> <<>>
      [] cp >= 2048 /\ cp < 65536 /\ ~(cp >= 55296 /\ cp <= 57343) ->
            <<224 + (cp \div 4096), 128 + ((cp \div 64) % 64), 128 + (cp % 64)>>
      [] cp >= 65536 ->
            <<240 + (cp \div 262144), 128 + ((cp \div 4096) % 64),
              128 + ((cp \div 64) % 64), 128 + (cp % 64)>>

RECURSIVE Utf8EncodeSeq(_)
Utf8EncodeSeq(cps) ==
    IF cps = <<>> THEN <<>> ELSE Utf8EncodeChar(cps[1]) \o Utf8EncodeSeq(Tail(cps))

\* str.encode("utf-8"): UnicodeEncodeError on a surrogate.
Utf8Encode(s) ==
    IF \E i \in 1..Len(s.items) : Utf8EncodeChar(s.items[i]) = <<>>
    THEN Raise("UnicodeEncodeError")
    ELSE Bytes(Utf8EncodeSeq(s.items))

IsCont(b) == b >= 128 /\ b <= 191

\* The number of octets of the well-formed UTF-8 sequence that starts bs, 0
\* when bs starts with none (strict decoding: no overlong form, no
\* surrogate, nothing above U+10FFFF).
Utf8SeqLen(bs) ==
    LET n == Len(bs)
        b1 == bs[1]
        Cont(i) == n >= i /\ IsCont(bs[i])
    IN  CASE b1 < 128 -> 1
          [] b1 >= 194 /\ b1 <= 223 -> IF Cont(2) THEN 2 ELSE 0
          [] b1 = 224 -> IF n >= 3 /\ bs[2] >= 160 /\ bs[2] <= 191 /\ Cont(3) THEN 3 ELSE 0
          [] (b1 >= 225 /\ b1 <= 236) \/ b1 \in {238, 239} ->
                IF Cont(2) /\ Cont(3) THEN 3 ELSE 0
          [] b1 = 237 -> IF n >= 3 /\ bs[2] >= 128 /\ bs[2] <= 159 /\ Cont(3) THEN 3 ELSE 0
          [] b1 = 240 ->
                IF n >= 4 /\ bs[2] >= 144 /\ bs[2] <= 191 /\ Cont(3) /\ Cont(4) THEN 4 ELSE 0
          [] b1 >= 241 /\ b1 <= 243 -> IF Cont(2) /\ Cont(3) /\ Cont(4) THEN 4 ELSE 0
          [] b1 = 244 ->
                IF n >= 4 /\ bs[2] >= 128 /\ bs[2] <= 143 /\ Cont(3) /\ Cont(4) THEN 4 ELSE 0
          [] OTHER -> 0

\* The code point of a well-formed sequence of k octets at the start of bs.
Utf8CodePoint(bs, k) ==
    CASE k = 1 -> bs[1]
      [] k = 2 -> (bs[1] - 192) * 64 + (bs[2] - 128)
      [] k = 3 -> (bs[1] - 224) * 4096 + (bs[2] - 128) * 64 + (bs[3] - 128)
      [] k = 4 -> (bs[1] - 240) * 262144 + (bs[2] - 128) * 4096
                    + (bs[3] - 128) * 64 + (bs[4] - 128)

RECURSIVE Utf8Valid(_)
Utf8Valid(bs) ==
    \/ bs = <<>>
    \/ LET k == Utf8SeqLen(bs)
       IN  k > 0 /\ Utf8Valid(SubSeq(bs, k + 1, Len(bs)))

RECURSIVE Utf8DecodeSeq(_)
Utf8DecodeSeq(bs) ==
    IF bs = <<>> THEN <<>>
    ELSE LET k == Utf8SeqLen(bs)
         IN  <<Utf8CodePoint(bs, k)>> \o Utf8DecodeSeq(SubSeq(bs, k + 1, Len(bs)))

\* bytes.decode("utf-8"): UnicodeDecodeError on an ill-formed sequence.
Utf8Decode(b) ==
    IF Utf8Valid(b.items) THEN Str(Utf8DecodeSeq(b.items)) ELSE Raise("UnicodeDecodeError")

\* The base64 alphabet: A-Z, a-z, 0-9, "+", "/" as ASCII codes, by value.
B64Char(v) ==
    CASE v < 26            -> 65 + v
      [] v >= 26 /\ v < 52 -> 97 + (v - 26)
      [] v >= 52 /\ v < 62 -> 48 + (v - 52)
      [] v = 62            -> 43
      [] v = 63            -> 47

\* The value of an ASCII code in the alphabet, 64 for a code outside it.
B64Val(c) ==
    CASE c >= 65 /\ c <= 90  -> c - 65
      [] c >= 97 /\ c <= 122 -> c - 97 + 26
      [] c >= 48 /\ c <= 57  -> c - 48 + 52
      [] c = 43              -> 62
      [] c = 47              -> 63
      [] OTHER               -> 64

\* "=".
B64Pad == 61

RECURSIVE b64encode_items(_)
b64encode_items(bs) ==
    CASE Len(bs) = 0 -> <<>>
      [] Len(bs) = 1 ->
            <<B64Char(bs[1] \div 4), B64Char((bs[1] % 4) * 16), B64Pad, B64Pad>>
      [] Len(bs) = 2 ->
            <<B64Char(bs[1] \div 4), B64Char((bs[1] % 4) * 16 + bs[2] \div 16),
              B64Char((bs[2] % 16) * 4), B64Pad>>
      [] Len(bs) >= 3 ->
            <<B64Char(bs[1] \div 4), B64Char((bs[1] % 4) * 16 + bs[2] \div 16),
              B64Char((bs[2] % 16) * 4 + bs[3] \div 64), B64Char(bs[3] % 64)>>
            \o b64encode_items(SubSeq(bs, 4, Len(bs)))

\* base64.b64encode: bytes to ASCII bytes.
b64encode(b) == Bytes(b64encode_items(b.items))

\* binascii.a2b_base64 without strict mode, from position i of the ASCII
\* codes cs: a code outside the alphabet is skipped, a complete pad sequence
\* ends the parse, and data that ends inside a quad is an error.
RECURSIVE a2b_base64(_, _, _, _, _, _)
a2b_base64(cs, i, quad_pos, leftchar, pads, out) ==
    IF i > Len(cs)
    THEN IF quad_pos # 0 THEN Raise("binascii.Error") ELSE Bytes(out)
    ELSE IF cs[i] = B64Pad
    THEN IF quad_pos >= 2
         THEN IF quad_pos + pads + 1 >= 4
              THEN Bytes(out)
              ELSE a2b_base64(cs, i + 1, quad_pos, leftchar, pads + 1, out)
         ELSE a2b_base64(cs, i + 1, quad_pos, leftchar, pads, out)
    ELSE LET this_ch == B64Val(cs[i])
         IN  IF this_ch >= 64
             THEN a2b_base64(cs, i + 1, quad_pos, leftchar, pads, out)
             ELSE CASE quad_pos = 0 -> a2b_base64(cs, i + 1, 1, this_ch, 0, out)
                    [] quad_pos = 1 ->
                         a2b_base64(cs, i + 1, 2, this_ch % 16, 0,
                                    Append(out, leftchar * 4 + this_ch \div 16))
                    [] quad_pos = 2 ->
                         a2b_base64(cs, i + 1, 3, this_ch % 4, 0,
                                    Append(out, leftchar * 16 + this_ch \div 4))
                    [] quad_pos = 3 ->
                         a2b_base64(cs, i + 1, 0, 0, 0, Append(out, leftchar * 64 + this_ch))

\* base64.b64decode(s) with its default validate=False: a str is first
\* encoded as ASCII.
b64decode(s) ==
    IF \E i \in 1..Len(s.items) : s.items[i] > 127
    THEN Raise("ValueError")
    ELSE a2b_base64(s.items, 1, 0, 0, 0, <<>>)

safe_base64_encode(data) ==
    LET encoded == IF data.type = "str" THEN Utf8Encode(data) ELSE data
    IN  IF IsRaise(encoded) THEN encoded ELSE Utf8Decode(b64encode(encoded))

\* safe_base64_decode reading the octets one code point each (latin-1).
safe_base64_decode_latin1(data) ==
    LET decoded == b64decode(data)
    IN  IF IsRaise(decoded) THEN decoded ELSE Str(decoded.items)

safe_base64_decode(data) ==
    LET decoded == b64decode(data)
    IN  IF IsRaise(decoded) THEN decoded ELSE Utf8Decode(decoded)

----------------------------------------------------------------------------
(* x402/mechanisms: the scheme implementations are those the packages      *)
(* export; the registry and the structural check follow the contracts of   *)
(* the scheme registry and of the server role.                             *)

\* "Exact EVM payment scheme V1 (legacy)".
LegacyVersion == 1

CurrentVersion == 2

SchemeKey(role, chain_family, scheme_name, protocol_version) ==
    [role |-> role, chain_family |-> chain_family, scheme_name |-> scheme_name,
     protocol_version |-> protocol_version]

\* An object of an exported scheme class.
Scheme(cls, role, chain_family, protocol_version, instance) ==
    [cls |-> cls, role |-> role, chain_family |-> chain_family, scheme_name |-> "exact",
     protocol_version |-> protocol_version, instance |-> instance]

Instances == {"first", "second"}

Schemes ==
    UNION {{Scheme("ExactEvmClientScheme", "client", "evm", CurrentVersion, i),
            Scheme("ExactEvmServerScheme", "server", "evm", CurrentVersion, i),
            Scheme("ExactEvmFacilitatorScheme", "facilitator", "evm", CurrentVersion, i),
            Scheme("ExactEvmSchemeV1Client", "client", "evm", LegacyVersion, i),
            Scheme("ExactEvmSchemeV1Facilitator", "facilitator", "evm", LegacyVersion, i),
            Scheme("ExactSvmClientScheme", "client", "svm", CurrentVersion, i)} :
           i \in Instances}

\* The key a scheme object is registered under by its package's register
\* function.
KeyOf(implementation) ==
    SchemeKey(implementation.role, implementation.chain_family,
              implementation.scheme_name, implementation.protocol_version)

Binding(key, implementation) == [key |-> key, implementation |-> implementation]

IsBound(bindings, key) == \E b \in bindings : b.key = key

\* register that replaces the implementation of a bound key.
register_rebinding(bindings, key, implementation) ==
    [bindings |-> {b \in bindings : b.key # key} \cup {Binding(key, implementation)},
     raised   |-> None]

register(bindings, key, implementation) ==
    IF IsBound(bindings, key)
    THEN [bindings |-> bindings, raised |-> "DuplicateRegistration"]
    ELSE [bindings |-> bindings \cup {Binding(key, implementation)}, raised |-> None]

UnknownScheme == [cls |-> "UnknownScheme"]

resolve(bindings, key) ==
    IF IsBound(bindings, key)
    THEN (CHOOSE b \in bindings : b.key = key).implementation
    ELSE UnknownScheme

ChainFamily(chain) == IF chain = "solana" THEN "svm" ELSE "evm"

PaymentRequirement(chain, protocol_version, amount) ==
    [scheme |-> "exact", chain |-> chain, protocol_version |-> protocol_version,
     amount |-> amount]

\* A proof as a client scheme constructs it for a requirement.
PaymentProof(chain, protocol_version, amount) ==
    [scheme |-> "exact", chain |-> chain, protocol_version |-> protocol_version,
     amount |-> amount]

\* accept that compares chain, scheme and amount only.
accept_ignoring_version(implementation, requirement, proof) ==
    /\ proof.amount >= requirement.amount
    /\ proof.chain = requirement.chain
    /\ proof.scheme = requirement.scheme

\* The server role's structural check of a proof against the requirement.
accept(implementation, requirement, proof) ==
    /\ proof.amount >= requirement.amount
    /\ proof.chain = requirement.chain
    /\ proof.scheme = requirement.scheme
    /\ proof.protocol_version = requirement.protocol_version
    /\ proof.protocol_version = implementation.protocol_version

\* The gate's step on a request with a proof: resolve the server scheme of
\* the requirement, then its structural check.
present(bindings, requirement, proof) ==
    LET key == SchemeKey("server", ChainFamily(requirement.chain), requirement.scheme,
                         requirement.protocol_version)
        implementation == resolve(bindings, key)
    IN  [implementation |-> implementation,
         state |-> IF implementation # UnknownScheme /\ accept(implementation, requirement, proof)
                   THEN "StructurallyAccepted"
                   ELSE "StructurallyRejected"]

----------------------------------------------------------------------------
(* models/lstm.py: the predictor and its cache.  The cache is the set of   *)
(* its entries, each with the time from which it no longer counts; the     *)
(* md5 digest of a key text stands for that text (the digests of the 160   *)
(* keys of the supported assets and timeframes are distinct).              *)

\* TTLCache(maxsize=1000, ttl=settings.cache_ttl)
maxsize == 1000

\* config.py: cache_ttl
cache_ttl == 300

\* _get_cache_key(method, asset, timeframe)
_get_cache_key(method, asset, timeframe) == method \o ":" \o asset \o ":" \o timeframe

\* TTLCache.expire(time): the entries that still count at `now`.
Live(c, now) == {e \in c : now < e.expires}

\* `key in self.cache`
Contains(c, key, now) == \E e \in c : e.key = key /\ now < e.expires

\* `self.cache[key]`, for a key the cache contains
GetItem(c, key) == CHOOSE e \in c : e.key = key

\* The entry TTLCache.popitem removes: the one inserted first.
Oldest(c) == CHOOSE e \in c : \A f \in c : e.expires <= f.expires

\* `self.cache[key] = value`: expired entries go, the oldest entries make
\* room while the cache is full, and the new entry lives for cache_ttl.
SetItem(c, key, value, now) ==
    LET live == {e \in Live(c, now) : e.key # key}
        room == IF Cardinality(live) >= maxsize THEN live \ {Oldest(live)} ELSE live
    IN  room \cup {[key |-> key, value |-> value, expires |-> now + cache_ttl]}

\* _simulate_prediction draws its figures at random: outcomes with all three
\* indicators bullish (confidence capped at 0.95) and with mixed indicators
\* (confidence in hundredths).
Simulations ==
    {[direction |-> "bullish", confidence |-> 95], [direction |-> "sideways", confidence |-> 70]}

\* What a predictor method leaves behind and hands back.
Done(c, result, simulations) == [cache |-> c, result |-> result, simulations |-> simulations]

\* predict_direction that never looks into the cache.
predict_direction_recomputing(c, now, asset, timeframe, sim) ==
    LET cache_key == _get_cache_key("direction", asset, timeframe)
        result    == [type |-> "direction", asset |-> asset, timeframe |-> timeframe,
                      direction |-> sim.direction, timestamp |-> now]
    IN  Done(SetItem(c, cache_key, result, now), result, 1)

\* LSTMPredictor.predict_direction
predict_direction(c, now, asset, timeframe, sim) ==
    LET cache_key == _get_cache_key("direction", asset, timeframe)
        result    == [type |-> "direction", asset |-> asset, timeframe |-> timeframe,
                      direction |-> sim.direction, timestamp |-> now]
    IN  IF Contains(c, cache_key, now)
        THEN Done(c, GetItem(c, cache_key).value, 0)
        ELSE Done(SetItem(c, cache_key, result, now), result, 1)

\* LSTMPredictor.predict_target: the prices and levels are figures of the
\* simulation, kept as the simulation itself.
predict_target(c, now, asset, timeframe, sim) ==
    LET cache_key == _get_cache_key("target", asset, timeframe)
        result    == [type |-> "target", asset |-> asset, timeframe |-> timeframe,
                      figures |-> sim, timestamp |-> now]
    IN  IF Contains(c, cache_key, now)
        THEN Done(c, GetItem(c, cache_key).value, 0)
        ELSE Done(SetItem(c, cache_key, result, now), result, 1)

\* LSTMPredictor.predict_confidence
predict_confidence(c, now, asset, timeframe, sim) ==
    LET cache_key == _get_cache_key("confidence", asset, timeframe)
        result    == [type |-> "confidence", asset |-> asset, timeframe |-> timeframe,
                      confidence |-> sim.confidence, timestamp |-> now]
    IN  IF Contains(c, cache_key, now)
        THEN Done(c, GetItem(c, cache_key).value, 0)
        ELSE Done(SetItem(c, cache_key, result, now), result, 1)

\* LSTMPredictor.predict_full: the three components through their own
\* methods, then a simulation of its own for the analysis.
predict_full(c, now, asset, timeframe, sims) ==
    LET cache_key  == _get_cache_key("full", asset, timeframe)
        direction  == predict_direction(c, now, asset, timeframe, sims[1])
        target     == predict_target(direction.cache, now, asset, timeframe, sims[2])
        confidence == predict_confidence(target.cache, now, asset, timeframe, sims[3])
        result     == [type |-> "full", asset |-> asset, timeframe |-> timeframe,
                       direction |-> direction.result, target |-> target.result,
                       confidence |-> confidence.result, analysis |-> sims[4],
                       timestamp |-> now]
    IN  IF Contains(c, cache_key, now)
        THEN Done(c, GetItem(c, cache_key).value, 0)
        ELSE Done(SetItem(confidence.cache, cache_key, result, now), result,
                  direction.simulations + target.simulations + confidence.simulations + 1)

\* clear_cache that leaves the entries where they are.
clear_cache_keeping_entries(c) == c

\* LSTMPredictor.clear_cache
clear_cache(c) == {}

\* LSTMPredictor.get_cache_stats; len() of a TTLCache drops expired entries.
get_cache_stats(c, now) ==
    [size |-> Cardinality(Live(c, now)), maxsize |-> maxsize, ttl |-> cache_ttl]

----------------------------------------------------------------------------
(* State.                                                                  *)

VARIABLES
    settings,    \* the configuration loaded at start-up
    requests,    \* the requests received so far, in arrival order
    pc,          \* per request: "received" or "responded"
    responses,   \* per request: the HTTP response, once responded
    trace,       \* per request: the calls made while handling it
    probe,       \* a direct call of _validate_payment_proof and its result
    codec,       \* a direct use of x402/encoding.py and its results
    registry,    \* the scheme registry: the bindings made so far
    regcall,     \* the last operation on the registry and its result
    gatecall,    \* a direct call of a decorated function and its outcome
    clock,       \* the time, in seconds
    stamps,      \* per request: when it was received and when responded to
    quote,       \* a direct call of generate_payment_request and its result
    cache,       \* the predictor's TTLCache: its entries
    log          \* the calls made on the predictor, with what they returned

vars ==
    <<settings, requests, pc, responses, trace, probe, codec, registry, regcall, gatecall,
      clock, stamps, quote, cache, log>>

\* The prediction API's requests and their handling.
served == <<requests, pc, responses, trace, stamps>>

\* What lies outside the prediction API, and the direct calls into it.
direct == <<probe, codec, registry, regcall, gatecall>>

\* The predictor singleton of models/lstm.py and the calls made on it.
predictor == <<cache, log>>

NoQuote == [endpoint |-> "none", amount |-> 0, done |-> FALSE, request |-> NoObject]

NoResponse == [status |-> 0, body |-> [pending |-> TRUE], headers |-> {}]

NoTrace == [calls |-> 0, validations |-> 0, chain_queries |-> 0]

\* A proof as the client builds it for a payment of `amount` (millionths) on
\* `chain`: the header text, and the payment it stands for.
Proof(text, chain, amount) == [text |-> text, chain |-> chain, amount |-> amount]

\* An encoded proof that spells out its chain and amount, followed by a
\* signature.
EncodedProof(chain, amount) ==
    Proof("x402:" \o chain \o ":" \o IntStr(amount) \o ":" \o Rep("s", 16), chain, amount)

\* The proofs handed to _validate_payment_proof directly.
Proofs ==
    {EncodedProof(c, a) : c \in {"base", "ethereum", "solana"},
                          a \in {1, PRICING.direction, PRICING.backtest}}
    \cup {Proof(t, "base", PRICING.direction) :
            t \in {"", "abc", Rep("b", 20), Rep("b", 21), TxHash, "0x" \o Rep("a", 63)}}

Prices == {PRICING[k] : k \in DOMAIN PRICING}

NoProbe == [proof |-> Proof("", "", 0), expected_amount |-> 0, done |-> FALSE, result |-> FALSE]

ProbeInputs ==
    {[proof |-> p, expected_amount |-> a, done |-> FALSE, result |-> FALSE] :
        p \in Proofs, a \in Prices}

\* Sequences over S of length lo to hi.
SeqsOf(S, lo, hi) == UNION {[1..n -> S] : n \in lo..hi}

MaxStrLen == 2

MaxBytesLen == 3

MaxTextLen == 4

\* "a", "e" with acute accent, the euro sign, an emoji: one to four octets.
PayloadCodePoints == {97, 233, 8364, 128512}

\* "a", the two octets of "e" with acute accent, and an octet no UTF-8
\* sequence contains.
PayloadOctets == {97, 195, 169, 255}

\* "Y", "Q", "w", "/" of the alphabet, the pad "=" and "#" outside it.
TextCodePoints == {89, 81, 119, 47, 61, 35}

\* The values handed to safe_base64_encode.
Payloads ==
    {Str(cps) : cps \in SeqsOf(PayloadCodePoints, 0, MaxStrLen)}
    \cup {Bytes(bs) : bs \in SeqsOf(PayloadOctets, 0, MaxBytesLen)}

\* The texts handed to safe_base64_decode as received.
Texts == {Str(cps) : cps \in SeqsOf(TextCodePoints, 0, MaxTextLen)}

\* A payload still to be encoded, or a received text still to be decoded.
CodecInput(kind, value) ==
    [kind    |-> kind,
     step    |-> IF kind = "payload" THEN "input" ELSE "encoded",
     value   |-> value,
     encoded |-> IF kind = "payload" THEN Str(<<>>) ELSE value,
     decoded |-> Str(<<>>)]

NoCodec == [CodecInput("text", Str(<<>>)) EXCEPT !.kind = "none", !.step = "none"]

CodecInputs ==
    {CodecInput("payload", p) : p \in Payloads} \cup {CodecInput("text", t) : t \in Texts}

NoCall == [op |-> "none"]

\* How a decorated function is handed its request: as FastAPI does (the
\* parsed body under the keyword "request"), with the Request object first
\* among the positional arguments, with the Request object under the keyword
\* "request", or not at all.
GateBindings == {"body", "positional", "keyword", "none"}

GateBody == PredictionRequest([asset |-> "BTC", timeframe |-> "1d"])

GateArgs(binding, headers) ==
    IF binding = "positional" THEN <<GateBody, HttpRequest(headers, Url("direction"))>> ELSE <<>>

GateKwargs(binding, headers) ==
    CASE binding = "body"    -> [request |-> GateBody]
      [] binding = "keyword" -> [request |-> HttpRequest(headers, Url("direction"))]
      [] OTHER               -> <<>>

\* What the decorated function does once called: return its value, raise
\* the HTTPException its own handler makes of an error, or raise an exception
\* of its own.
FuncOutcomes ==
    {predict("direction", GateBody),
     Raised(HTTPException(500, "ValueError"), 1, 0),
     Raised([cls |-> "ValueError"], 1, 0)}

NoGateCall ==
    [binding |-> "none", headers |-> NoHeaders, func_outcome |-> predict("direction", GateBody),
     done |-> FALSE, outcome |-> Raised(NoObject, 0, 0)]

GateCalls ==
    {[NoGateCall EXCEPT !.binding = b, !.headers = h, !.func_outcome = f] :
        b \in GateBindings, h \in HeaderSets, f \in FuncOutcomes}

\* Requirements of the deployment's chain, and proofs for them: built under
\* either version, for either chain, paying the price or less.
Requirements ==
    {PaymentRequirement(DefaultNetwork, v, PRICING.direction) :
        v \in {LegacyVersion, CurrentVersion}}

VersionedProofs ==
    {PaymentProof(c, v, a) : c \in {DefaultNetwork, "solana"},
                             v \in {LegacyVersion, CurrentVersion},
                             a \in {1, PRICING.direction}}

Init ==
    /\ settings \in DeployedSettings
    /\ requests = <<>>
    /\ pc = <<>>
    /\ responses = <<>>
    /\ trace = <<>>
    /\ probe = NoProbe
    /\ codec = NoCodec
    /\ registry = {}
    /\ regcall = NoCall
    /\ gatecall = NoGateCall
    /\ clock = 0
    /\ stamps = <<>>
    /\ quote = NoQuote
    /\ cache = {}
    /\ log = <<>>

\* A request arrives; its body is read while other requests are served.
Receive(r) ==
    /\ Len(requests) < MaxRequests
    /\ requests' = Append(requests, r)
    /\ pc' = Append(pc, "received")
    /\ responses' = Append(responses, NoResponse)
    /\ trace' = Append(trace, NoTrace)
    /\ stamps' = Append(stamps, [received |-> clock, responded |-> clock])
    /\ UNCHANGED <<settings, quote, predictor, direct, clock>>

\* The endpoint runs to its response without suspending: neither the gate
\* nor the simulated predictor awaits anything but its own coroutines.
Handle(i) ==
    /\ pc[i] = "received"
    /\ LET outcome == Outcome(settings, requests[i])
       IN  /\ responses' = [responses EXCEPT ![i] = Response(requests[i], outcome)]
           /\ trace' = [trace EXCEPT ![i] = [calls         |-> outcome.calls,
                                             validations   |-> outcome.validations,
                                             chain_queries |-> outcome.chain_queries]]
    /\ pc' = [pc EXCEPT ![i] = "responded"]
    /\ stamps' = [stamps EXCEPT ![i].responded = clock]
    /\ UNCHANGED <<settings, quote, predictor, requests, direct, clock>>

\* A request to one of the five decorated endpoints is served.
HandlePaywalled(i) == requests[i].endpoint \in PaywalledEndpoints /\ Handle(i)

\* A request to /predict/bulk is served.
HandleBulk(i) == requests[i].endpoint = "bulk" /\ Handle(i)

Next ==
    \/ \E r \in Requests : Receive(r)
    \/ \E i \in 1..Len(requests) : HandlePaywalled(i)
    \/ \E i \in 1..Len(requests) : HandleBulk(i)

Spec == Init /\ [][Next]_vars

----------------------------------------------------------------------------
(* _validate_payment_proof on its own: any configuration, any proof of     *)
(* Proofs, the price of any endpoint as expected amount.                   *)

InitValidate ==
    /\ settings \in SettingsSet
    /\ requests = <<>>
    /\ pc = <<>>
    /\ responses = <<>>
    /\ trace = <<>>
    /\ probe \in ProbeInputs
    /\ codec = NoCodec
    /\ registry = {}
    /\ regcall = NoCall
    /\ gatecall = NoGateCall
    /\ clock = 0
    /\ stamps = <<>>
    /\ quote = NoQuote
    /\ cache = {}
    /\ log = <<>>

Validate ==
    /\ ~probe.done
    /\ probe' = [probe EXCEPT
                   !.done = TRUE,
                   !.result = _validate_payment_proof(settings, probe.proof.text,
                                                      probe.expected_amount)]
    /\ UNCHANGED <<settings, quote, predictor, served, codec, registry, regcall, gatecall, clock>>

NextValidate == Validate

SpecValidate == InitValidate /\ [][NextValidate]_vars

----------------------------------------------------------------------------
(* x402/encoding.py on its own: a payload is encoded and the text decoded  *)
(* again, or a received text is decoded.                                   *)

InitCodec ==
    /\ settings = Settings(TRUE, FALSE, DefaultNetwork)
    /\ requests = <<>>
    /\ pc = <<>>
    /\ responses = <<>>
    /\ trace = <<>>
    /\ probe = NoProbe
    /\ codec \in CodecInputs
    /\ registry = {}
    /\ regcall = NoCall
    /\ gatecall = NoGateCall
    /\ clock = 0
    /\ stamps = <<>>
    /\ quote = NoQuote
    /\ cache = {}
    /\ log = <<>>

Encode ==
    /\ codec.step = "input"
    /\ codec' = [codec EXCEPT !.step = "encoded", !.encoded = safe_base64_encode(codec.value)]
    /\ UNCHANGED <<settings, quote, predictor, served, probe, registry, regcall, gatecall, clock>>

Decode ==
    /\ codec.step = "encoded"
    /\ ~IsRaise(codec.encoded)
    /\ codec' = [codec EXCEPT !.step = "decoded", !.decoded = safe_base64_decode(codec.encoded)]
    /\ UNCHANGED <<settings, quote, predictor, served, probe, registry, regcall, gatecall, clock>>

NextCodec == Encode \/ Decode

SpecCodec == InitCodec /\ [][NextCodec]_vars

----------------------------------------------------------------------------
(* The application while time passes: a client is challenged and comes      *)
(* back with a proof, at once or later.                                    *)

MaxTicks == 2

\* Two ticks take the clock past the validity a challenge advertises.
TickSeconds == DefaultValiditySeconds \div 2 + 1

Tick ==
    /\ clock < MaxTicks * TickSeconds
    /\ clock' = clock + TickSeconds
    /\ UNCHANGED <<settings, quote, predictor, served, direct>>

\* Requests with a well-formed body, without header or with TxHash.
TimedRequests ==
    {r \in Requests :
        /\ BodyModel(r.endpoint, r.json) # NoObject
        /\ r.headers \in {NoHeaders, WithProof(TxHash)}
        /\ r.endpoint \in {"direction", "bulk"}}

NextTimeout ==
    \/ \E r \in TimedRequests : Receive(r)
    \/ \E i \in 1..Len(requests) : HandlePaywalled(i)
    \/ \E i \in 1..Len(requests) : HandleBulk(i)
    \/ Tick

SpecTimeout == Init /\ [][NextTimeout]_vars

----------------------------------------------------------------------------
(* The application under bodies inside and outside the endpoint's model,   *)
(* each sent without payment header and with TxHash.                       *)

\* A timeframe outside Timeframe, as tests/test_api.py sends it.
BadTimeframe == "2h"

BodyJson(endpoint) ==
    CASE endpoint \in PredictionEndpoints ->
           {[asset |-> "BTC", timeframe |-> "1d"],
            [asset |-> "INVALID", timeframe |-> "1d"],
            [asset |-> "BTC", timeframe |-> BadTimeframe]}
      [] endpoint = "bulk" ->
           {[assets |-> l, timeframe |-> t, type |-> "direction"] :
              l \in {<<"BTC">>, <<"INVALID">>, [i \in 1..(MaxBulkAssets + 1) |-> "BTC"]},
              t \in {"1d", BadTimeframe}}
      [] endpoint = "backtest" ->
           {[asset |-> a, strategy |-> "momentum",
             start_date |-> "2025-01-01", end_date |-> "2025-12-31"] : a \in {"BTC", "INVALID"}}

BodyRequests ==
    UNION {[endpoint : {e}, headers : {NoHeaders, WithProof(TxHash)}, json : BodyJson(e)] :
              e \in {"direction", "bulk", "backtest"}}

NextBodies ==
    \/ \E r \in BodyRequests : Receive(r)
    \/ \E i \in 1..Len(requests) : HandlePaywalled(i)
    \/ \E i \in 1..Len(requests) : HandleBulk(i)

SpecBodies == Init /\ [][NextBodies]_vars

----------------------------------------------------------------------------
(* generate_payment_request on its own: the service is configured for any  *)
(* network either table names and quotes the price of an endpoint.         *)

QuoteNetworks == DOMAIN chain_ids \cup DOMAIN EVM_NETWORK_TO_CHAIN_ID

QuoteInputs ==
    {[endpoint |-> e, done |-> FALSE, request |-> NoObject,
      amount |-> IF e = "bulk" THEN PRICING.bulk_per_asset ELSE PRICING[e]] :
        e \in PricedEndpoints}

InitQuote ==
    /\ settings \in {Settings(e, d, n) : e \in BOOLEAN, d \in BOOLEAN, n \in QuoteNetworks}
    /\ requests = <<>>
    /\ pc = <<>>
    /\ responses = <<>>
    /\ trace = <<>>
    /\ probe = NoProbe
    /\ codec = NoCodec
    /\ registry = {}
    /\ regcall = NoCall
    /\ gatecall = NoGateCall
    /\ clock = 0
    /\ stamps = <<>>
    /\ quote \in QuoteInputs
    /\ cache = {}
    /\ log = <<>>

Generate ==
    /\ ~quote.done
    /\ quote' = [quote EXCEPT
                   !.done = TRUE,
                   !.request = generate_payment_request(settings, quote.amount,
                                                        Url(quote.endpoint), "",
                                                        DefaultValiditySeconds)]
    /\ UNCHANGED <<settings, served, direct, clock, predictor>>

NextQuote == Generate

SpecQuote == InitQuote /\ [][NextQuote]_vars

----------------------------------------------------------------------------
(* The predictor on its own: prediction calls and clear_cache calls while  *)
(* time passes.  No method suspends, so calls do not interleave.           *)

MaxCalls == 3

\* The calls made: every method for one (asset, timeframe), and one method
\* for a second asset.
PredictorCalls ==
    {<<m, "BTC", "1d">> : m \in PredictionEndpoints} \cup {<<"direction", "ETH", "1d">>}

\* The simulations a call may run, in the order it runs them: all alike, or
\* the first unlike the rest.
SimulationRuns ==
    {[i \in 1..4 |-> IF i = 1 THEN a ELSE b] : a \in Simulations, b \in Simulations}

\* predictor.predict_<method>(asset, timeframe)
PredictorCall(method, asset, timeframe, sims) ==
    CASE method = "direction"  -> predict_direction(cache, clock, asset, timeframe, sims[1])
      [] method = "target"     -> predict_target(cache, clock, asset, timeframe, sims[1])
      [] method = "confidence" -> predict_confidence(cache, clock, asset, timeframe, sims[1])
      [] method = "full"       -> predict_full(cache, clock, asset, timeframe, sims)

Predict(method, asset, timeframe, sims) ==
    /\ Len(log) < MaxCalls
    /\ LET done == PredictorCall(method, asset, timeframe, sims)
           key  == _get_cache_key(method, asset, timeframe)
       IN  /\ cache' = done.cache
           /\ log' = Append(log, [op |-> method, asset |-> asset, timeframe |-> timeframe,
                                  at |-> clock, result |-> done.result,
                                  simulations |-> done.simulations,
                                  expires |-> GetItem(done.cache, key).expires,
                                  size |-> get_cache_stats(done.cache, clock).size])
    /\ UNCHANGED <<settings, served, direct, clock, quote>>

\* POST /debug/clear-cache
ClearCache ==
    /\ Len(log) < MaxCalls
    /\ cache' = clear_cache(cache)
    /\ log' = Append(log, [op |-> "clear_cache", asset |-> "", timeframe |-> "",
                           at |-> clock, result |-> NoObject, simulations |-> 0,
                           expires |-> clock,
                           size |-> get_cache_stats(clear_cache(cache), clock).size])
    /\ UNCHANGED <<settings, served, direct, clock, quote>>

NextPredictor ==
    \/ \E c \in PredictorCalls, sims \in SimulationRuns : Predict(c[1], c[2], c[3], sims)
    \/ ClearCache
    \/ Tick

InitPredictor ==
    /\ settings = Settings(TRUE, FALSE, DefaultNetwork)
    /\ requests = <<>>
    /\ pc = <<>>
    /\ responses = <<>>
    /\ trace = <<>>
    /\ probe = NoProbe
    /\ codec = NoCodec
    /\ registry = {}
    /\ regcall = NoCall
    /\ gatecall = NoGateCall
    /\ clock = 0
    /\ stamps = <<>>
    /\ quote = NoQuote
    /\ cache = {}
    /\ log = <<>>

SpecPredictor == InitPredictor /\ [][NextPredictor]_vars

----------------------------------------------------------------------------
(* A function decorated with x402_paywall, called directly: any            *)
(* configuration, any way of handing it the request, any outcome of the    *)
(* function itself.                                                        *)

InitWrapper ==
    /\ settings \in SettingsSet
    /\ requests = <<>>
    /\ pc = <<>>
    /\ responses = <<>>
    /\ trace = <<>>
    /\ probe = NoProbe
    /\ codec = NoCodec
    /\ registry = {}
    /\ regcall = NoCall
    /\ gatecall \in GateCalls
    /\ clock = 0
    /\ stamps = <<>>
    /\ quote = NoQuote
    /\ cache = {}
    /\ log = <<>>

CallWrapper ==
    /\ ~gatecall.done
    /\ gatecall' = [gatecall EXCEPT
                      !.done = TRUE,
                      !.outcome = wrapper(settings, PRICING.direction,
                                          PaywallDescription("direction"), None, None, None,
                                          gatecall.func_outcome,
                                          GateArgs(gatecall.binding, gatecall.headers),
                                          GateKwargs(gatecall.binding, gatecall.headers))]
    /\ UNCHANGED <<settings, quote, predictor, served, probe, codec, registry, regcall, clock>>

NextWrapper == CallWrapper

SpecWrapper == InitWrapper /\ [][NextWrapper]_vars

----------------------------------------------------------------------------
(* The scheme registry on its own: scheme objects are registered under     *)
(* their keys, and proofs are presented for requirements.                  *)

InitRegistry ==
    /\ settings = Settings(TRUE, FALSE, DefaultNetwork)
    /\ requests = <<>>
    /\ pc = <<>>
    /\ responses = <<>>
    /\ trace = <<>>
    /\ probe = NoProbe
    /\ codec = NoCodec
    /\ registry = {}
    /\ regcall = NoCall
    /\ gatecall = NoGateCall
    /\ clock = 0
    /\ stamps = <<>>
    /\ quote = NoQuote
    /\ cache = {}
    /\ log = <<>>

Register(implementation) ==
    LET result == register(registry, KeyOf(implementation), implementation)
    IN  /\ registry' = result.bindings
        /\ regcall' = [op |-> "register", key |-> KeyOf(implementation),
                       implementation |-> implementation, raised |-> result.raised,
                       before |-> registry]
        /\ UNCHANGED <<settings, quote, predictor, served, probe, codec, gatecall, clock>>

Present(requirement, proof) ==
    LET result == present(registry, requirement, proof)
    IN  /\ regcall' = [op |-> "present", requirement |-> requirement, proof |-> proof,
                       implementation |-> result.implementation, state |-> result.state]
        /\ UNCHANGED <<settings, quote, predictor, served, probe, codec, registry, gatecall, clock>>

NextRegistry ==
    \/ \E implementation \in Schemes : Register(implementation)
    \/ \E requirement \in Requirements, proof \in VersionedProofs : Present(requirement, proof)

SpecRegistry == InitRegistry /\ [][NextRegistry]_vars

----------------------------------------------------------------------------
(* Vocabulary of the properties.                                           *)

Ids == 1..Len(requests)

Responded(i) == pc[i] = "responded"

GatingOn == settings.x402_enabled

\* The value of the payment header of request i, None when absent.
HeaderOf(i) == HeadersGet(requests[i].headers, "X-402-Payment")

ValidBody(i) == BodyModel(requests[i].endpoint, requests[i].json) # NoObject

\* The price of request i: the endpoint's, per asset for a bulk request.
PriceOf(i) ==
    IF requests[i].endpoint = "bulk"
    THEN PRICING.bulk_per_asset * Len(requests[i].json.assets)
    ELSE PRICING[requests[i].endpoint]

\* The protected operation of request i raises once invoked.
OperationRaises(i) ==
    requests[i].endpoint = "backtest" /\ run_backtest_raises(requests[i].json)

\* The payment-required response of the wire format.
IsChallenge(resp) ==
    /\ resp.status = 402
    /\ {"x402_version", "accepts"} \subseteq DOMAIN resp.body

\* "0x" followed by 64 characters.
IsTxHash(h) == ~Falsy(h) /\ StartsWith(h, "0x") /\ Len(h) = 66

\* A served request of a gated deployment with a well-formed body.
Gated(i) == Responded(i) /\ GatingOn /\ ValidBody(i)

----------------------------------------------------------------------------
(* Properties.                                                             *)

\* C1: with gating enabled, a request without payment header to a decorated
\* endpoint is answered with the payment-required response (402, raised as
\* X402PaymentRequired) and the protected operation is not invoked.
C1_NoHeaderIsChallenged ==
    \A i \in Ids :
        (Gated(i) /\ requests[i].endpoint \in PaywalledEndpoints /\ Falsy(HeaderOf(i)))
        => /\ IsChallenge(responses[i])
           /\ trace[i].calls = 0

\* C2: with gating enabled, a request to a decorated endpoint whose payment
\* header is "0x" and 64 hex characters invokes the protected operation
\* exactly once and is answered 200 with the operation's result.
C2_TxHashIsServed ==
    \A i \in Ids :
        (Gated(i) /\ requests[i].endpoint \in PaywalledEndpoints
                  /\ IsTxHash(HeaderOf(i)) /\ ~OperationRaises(i))
        => /\ trace[i].calls = 1
           /\ responses[i].status = 200
           /\ "success" \in DOMAIN responses[i].body

\* C3: at-most-one delivery: over the requests served by a gated deployment,
\* the protected operation is invoked at most once in total for one proof
\* that passes validation; a replay of a proof that was already delivered
\* does not invoke it again.
C3_AtMostOneDelivery ==
    \A i, j \in Ids :
        (Gated(i) /\ Gated(j) /\ i # j
            /\ ~Falsy(HeaderOf(i)) /\ HeaderOf(i) = HeaderOf(j)
            /\ _validate_payment_proof(settings, HeaderOf(i), PriceOf(i))
            /\ _validate_payment_proof(settings, HeaderOf(j), PriceOf(j)))
        => trace[i].calls + trace[j].calls <= 1

\* C4: idempotent settlement: when a request is served while an earlier
\* request with the same well-formed proof is still in flight, and that one is served in
\* turn, both get the same outcome and exactly one of the two performed the
\* authoritative check (one chain query for the key).
C4_SingleFlightVerification ==
    [][\A i, j \in Ids :
        (/\ i < j /\ GatingOn /\ ValidBody(i) /\ ValidBody(j)
         /\ requests[i].endpoint = requests[j].endpoint
         /\ ~Falsy(HeaderOf(i)) /\ HeaderOf(i) = HeaderOf(j)
         /\ _validate_payment_proof(settings, HeaderOf(i), PriceOf(i))
         /\ pc[j] = "responded" /\ pc[i] = "received" /\ pc'[i] = "responded")
        => /\ responses'[i].status = responses'[j].status
           /\ trace'[i].chain_queries + trace'[j].chain_queries = 1]_vars

\* C5: on every priced endpoint of a gated deployment, a request whose
\* attached proof fails the gate's proof validation never invokes the
\* protected operation.
C5_InvalidProofNeverInvokes ==
    \A i \in Ids :
        (Gated(i) /\ ~Falsy(HeaderOf(i))
            /\ ~_validate_payment_proof(settings, HeaderOf(i), PriceOf(i)))
        => trace[i].calls = 0

\* C6: every gated request that does not end in the protected operation
\* being invoked is answered with the payment-required shape: status 402 and
\* a body with x402_version and an accepts list.
C6_RefusalIsChallengeShaped ==
    \A i \in Ids :
        (Gated(i) /\ trace[i].calls = 0) => IsChallenge(responses[i])


C8_ChallengeQuotesSmallestUnit ==
    \A i \in Ids :
        (Gated(i) /\ Falsy(HeaderOf(i)) /\ IsChallenge(responses[i]))
        => LET accepts == responses[i].body.accepts
           IN  /\ Len(accepts) = 1
               /\ accepts[1].scheme = "exact"
               /\ accepts[1].payTo = settings.x402_recipient_address
               /\ accepts[1].maxAmountRequired = IntStr(PriceOf(i))

\* C9: the accepts entry of every 402 challenge equals the accepts entry of
\* generate_payment_request(amount, url, description) for the amount and
\* description of the X402PaymentRequired raised, field for field.
C9_HandlerEmitsGeneratedRequest ==
    \A i \in Ids :
        (Responded(i) /\ IsChallenge(responses[i]))
        => LET exc       == Outcome(settings, requests[i]).exc
               emitted   == responses[i].body.accepts[1]
               generated == generate_payment_request(
                                settings, exc.amount, Url(requests[i].endpoint),
                                exc.description, DefaultValiditySeconds).accepts[1]
           IN  \A f \in {"network", "maxAmountRequired", "asset", "payTo",
                         "maxTimeoutSeconds", "resource", "description"} :
                   emitted[f] = generated[f]

\* C10: structural fast path: with gating enabled and debug off, a proof
\* whose amount is below the required amount, or whose chain is not the
\* requirement's chain, fails _validate_payment_proof.
C10_UnderpaidOrWrongChainRejected ==
    (/\ probe.done /\ settings.x402_enabled /\ ~settings.debug
     /\ \/ probe.proof.amount < probe.expected_amount
        \/ probe.proof.chain # settings.x402_network)
    => probe.result = FALSE

\* C12 as stated: for every payload the encoder accepts, str or bytes,
\* safe_base64_decode(safe_base64_encode(p)) equals p.
C12_RoundTrip ==
    (codec.kind = "payload" /\ codec.step = "decoded") => codec.decoded = codec.value

\* C12: for every str p the encoder accepts,
\* safe_base64_decode(safe_base64_encode(p)) equals p; for bytes p the result
\* is never p: it is the str p.decode("utf-8") when p is well-formed UTF-8,
\* and a UnicodeDecodeError otherwise.
C12_RoundTripOfStr ==
    (codec.kind = "payload" /\ codec.step = "decoded")
    => /\ codec.value.type = "str" => codec.decoded = codec.value
       /\ codec.value.type = "bytes"
            => /\ codec.decoded # codec.value
               /\ codec.decoded = IF Utf8Valid(codec.value.items)
                                  THEN Str(Utf8DecodeSeq(codec.value.items))
                                  ELSE Raise("UnicodeDecodeError")

\* C12 happens: a str of two characters, one of them outside ASCII, has been
\* encoded and decoded again to itself.
C12_Witness ==
    /\ codec.kind = "payload" /\ codec.step = "decoded"
    /\ codec.value.type = "str" /\ Len(codec.value.items) >= 2
    /\ \E i \in 1..Len(codec.value.items) : codec.value.items[i] > 127
    /\ ~IsRaise(codec.encoded) /\ codec.encoded # codec.value
    /\ codec.decoded = codec.value

\* The text is base64 as b64encode writes it: whole quads of alphabet
\* characters, the last of which may end in one or two pads.
CanonicalBase64(cs) ==
    /\ Len(cs) % 4 = 0
    /\ \A i \in 1..Len(cs) :
          \/ B64Val(cs[i]) < 64
          \/ /\ cs[i] = B64Pad
             /\ i >= Len(cs) - 1
             /\ i = Len(cs) - 1 => cs[Len(cs)] = B64Pad

\* Malformed or truncated input: not canonical base64, or base64 of octets
\* that are not well-formed UTF-8.
Malformed(text) ==
    \/ ~CanonicalBase64(text.items)
    \/ LET octets == b64decode(text)
       IN  IsRaise(octets) \/ ~Utf8Valid(octets.items)

\* C13: safe_base64_decode answers every malformed or truncated text with a
\* DecodeError: it neither returns a value for it nor raises another
\* exception.
C13_MalformedIsDecodeError ==
    (codec.kind = "text" /\ codec.step = "decoded" /\ Malformed(codec.value))
    => codec.decoded = Raise("DecodeError")

\* C11: version isolation: a proof built under protocol version 1 is
\* StructurallyRejected by the version-2 server scheme even when chain and
\* scheme match; every implementation is bound under the key of its own
\* version, and a requirement is only ever dispatched to an implementation of
\* its version.
C11_VersionIsolation ==
    /\ \A b \in registry : b.key.protocol_version = b.implementation.protocol_version
    /\ regcall.op = "present"
        => /\ (regcall.proof.protocol_version = LegacyVersion
                /\ regcall.requirement.protocol_version = CurrentVersion)
               => regcall.state = "StructurallyRejected"
           /\ regcall.implementation # UnknownScheme
               => regcall.implementation.protocol_version
                    = regcall.requirement.protocol_version

\* C11 happens: the legacy and the current EVM client are both registered,
\* and the current server scheme has refused a version-1 proof that matches
\* the requirement in chain, scheme and amount.
C11_Witness ==
    /\ \E b1, b2 \in registry :
          /\ b1.key.chain_family = b2.key.chain_family /\ b1.key.role = b2.key.role
          /\ b1.key.protocol_version = LegacyVersion
          /\ b2.key.protocol_version = CurrentVersion
    /\ regcall.op = "present"
    /\ regcall.implementation # UnknownScheme
    /\ regcall.implementation.protocol_version = CurrentVersion
    /\ regcall.proof.protocol_version = LegacyVersion
    /\ regcall.proof.chain = regcall.requirement.chain
    /\ regcall.proof.scheme = regcall.requirement.scheme
    /\ regcall.proof.amount >= regcall.requirement.amount
    /\ regcall.state = "StructurallyRejected"

\* C18: registering an implementation under a key that is already bound
\* fails with DuplicateRegistration and leaves the bindings as they were;
\* no key is ever bound to two implementations.
C18_DuplicateRegistrationFails ==
    /\ \A b1, b2 \in registry : b1.key = b2.key => b1 = b2
    /\ (regcall.op = "register" /\ IsBound(regcall.before, regcall.key))
        => /\ regcall.raised = "DuplicateRegistration"
           /\ registry = regcall.before

\* C18 happens: a second object was registered under a bound key and the
\* key still resolves to the first.
C18_Witness ==
    /\ regcall.op = "register"
    /\ regcall.raised = "DuplicateRegistration"
    /\ resolve(registry, regcall.key) # UnknownScheme
    /\ resolve(registry, regcall.key) # regcall.implementation

\* C20: once the wrapper calls the decorated function, its outcome is the
\* function's: the value it returns or the very exception it raises, never
\* a payment response in its place.
C20_OutcomePassedThrough ==
    (gatecall.done /\ gatecall.outcome.calls = 1)
    => /\ gatecall.outcome.kind = gatecall.func_outcome.kind
       /\ gatecall.outcome.value = gatecall.func_outcome.value
       /\ gatecall.outcome.exc = gatecall.func_outcome.exc

\* C20 happens: a gated deployment validated the proof, called the function,
\* and the function's own exception left the wrapper.
C20_Witness ==
    /\ gatecall.done /\ settings.x402_enabled /\ ~settings.debug
    /\ gatecall.outcome.validations = 1 /\ gatecall.outcome.calls = 1
    /\ gatecall.func_outcome.kind = "raise"
    /\ gatecall.func_outcome.exc.cls = "ValueError"
    /\ gatecall.outcome.exc = gatecall.func_outcome.exc

\* C15: a proof presented for a challenge after the maxTimeoutSeconds the
\* challenge advertised has expired: the request that carries it is not
\* served (the protected operation is not invoked, the answer is not 200).
C15_LateProofExpired ==
    \A i, j \in Ids :
        (/\ GatingOn /\ Responded(i) /\ Responded(j)
         /\ requests[i].endpoint = requests[j].endpoint
         /\ requests[i].json = requests[j].json
         /\ IsChallenge(responses[i])
         /\ ~Falsy(HeaderOf(j))
         /\ stamps[j].received
               > stamps[i].responded + responses[i].body.accepts[1].maxTimeoutSeconds)
        => /\ trace[j].calls = 0
           /\ responses[j].status # 200

\* C16: on every priced endpoint of a gated deployment, a request without
\* payment header and the same request with a header that fails validation
\* get the same outcome: same status, same response shape, protected
\* operation not invoked.
C16_NoHeaderLikeInvalidProof ==
    \A i, j \in Ids :
        (/\ Gated(i) /\ Gated(j)
         /\ requests[i].endpoint = requests[j].endpoint
         /\ requests[i].json = requests[j].json
         /\ Falsy(HeaderOf(i))
         /\ ~Falsy(HeaderOf(j))
         /\ ~_validate_payment_proof(settings, HeaderOf(j), PriceOf(j)))
        => /\ responses[i].status = responses[j].status
           /\ DOMAIN responses[i].body = DOMAIN responses[j].body
           /\ trace[i].calls = 0
           /\ trace[j].calls = 0

\* The proof has neither the form of a transaction hash nor more than 20
\* characters.
TooShort(proof) == ~(StartsWith(proof, "0x") /\ Len(proof) = 66) /\ Len(proof) <= 20

\* C17: for every proof string, the empty one included, and every expected
\* amount, _validate_payment_proof returns a boolean, raising nothing: False
\* for the empty string in every configuration, and False for a proof of
\* the wrong form when gating is enabled and debug is off.
C17_ValidateReturnsBoolean ==
    probe.done
    => /\ probe.result \in BOOLEAN
       /\ probe.proof.text = "" => probe.result = FALSE
       /\ (settings.x402_enabled /\ ~settings.debug /\ TooShort(probe.proof.text))
            => probe.result = FALSE

\* C17 happens: the empty proof was refused by a deployment in debug mode,
\* which accepts every other proof.
C17_Witness ==
    /\ probe.done /\ settings.debug
    /\ probe.proof.text = ""
    /\ probe.result = FALSE
    /\ _validate_payment_proof(settings, "abc", probe.expected_amount)

\* C19: a bulk request with 1 to 10 assets that passes the gate is answered
\* with a prediction for every asset of the list, asset_count the length of
\* the list and total_cost the per-asset price times that length; without
\* proof, a gated deployment demands that same total in its challenge.
C19_BulkTotals ==
    \A i \in Ids :
        (Responded(i) /\ requests[i].endpoint = "bulk" /\ ValidBody(i))
        => LET assets == requests[i].json.assets
               total  == PRICING.bulk_per_asset * Len(assets)
               body   == responses[i].body
           IN  /\ trace[i].calls = 1
                    => /\ responses[i].status = 200
                       /\ \A k \in 1..Len(assets) :
                             /\ assets[k] \in DOMAIN body.predictions
                             /\ body.predictions[assets[k]].asset = assets[k]
                       /\ body.asset_count = Len(assets)
                       /\ body.total_cost = total
               /\ (GatingOn /\ Falsy(HeaderOf(i)))
                    => /\ IsChallenge(responses[i])
                       /\ Outcome(settings, requests[i]).exc.amount = total
                       /\ body.accepts[1].maxAmountRequired = FloatStr(total)

\* C19 happens: a gated deployment has served a bulk request for three
\* assets, two of them the same, and has challenged one for two assets.
C19_Witness ==
    /\ GatingOn
    /\ \E i \in Ids :
          /\ Responded(i) /\ requests[i].endpoint = "bulk" /\ ValidBody(i)
          /\ Len(requests[i].json.assets) = 3
          /\ trace[i].calls = 1
          /\ responses[i].body.asset_count = 3
          /\ responses[i].body.total_cost = 3 * PRICING.bulk_per_asset
    /\ \E j \in Ids :
          /\ Responded(j) /\ requests[j].endpoint = "bulk" /\ ValidBody(j)
          /\ Len(requests[j].json.assets) = 2
          /\ IsChallenge(responses[j])
          /\ responses[j].body.accepts[1].maxAmountRequired = "0.02"

\* C21: with settings.debug on, every non-empty proof validates to true,
\* whatever its length, its form and the expected amount, and the empty
\* proof validates to false.
C21_DebugAcceptsNonEmpty ==
    (probe.done /\ settings.debug) => probe.result = (probe.proof.text # "")

\* C21 happens: a gated deployment in debug mode accepted a proof of three
\* characters.
C21_Witness ==
    /\ probe.done /\ settings.debug /\ settings.x402_enabled
    /\ probe.proof.text = "abc"
    /\ probe.result = TRUE

\* C24: with gating enabled and debug off, _validate_payment_proof accepts
\* a proof exactly when it is longer than 20 characters: the rule for "0x"
\* and 66 characters changes no result, and proofs of equal length get equal
\* results.
C24_AcceptsIffLongerThan20 ==
    (probe.done /\ settings.x402_enabled /\ ~settings.debug)
    => /\ probe.result = (Len(probe.proof.text) > 20)
       /\ \A p \in Proofs :
             Len(p.text) = Len(probe.proof.text)
             => _validate_payment_proof(settings, p.text, probe.expected_amount) = probe.result

\* C24 happens: in production mode a proof of 21 characters that is no
\* transaction hash was accepted.
C24_Witness ==
    /\ probe.done /\ settings.x402_enabled /\ ~settings.debug
    /\ Len(probe.proof.text) = 21
    /\ ~StartsWith(probe.proof.text, "0x")
    /\ probe.result = TRUE

\* C25: for a fixed configuration the decision on a proof depends on the
\* proof string alone: the expected amount of any endpoint gives the decision
\* that was made.
C25_DecisionByProofAlone ==
    probe.done
    => \A a \in Prices : _validate_payment_proof(settings, probe.proof.text, a) = probe.result

\* C25 happens: in production mode a proof that pays the price of the
\* direction prediction was accepted for the price of the backtest.
C25_Witness ==
    /\ probe.done /\ settings.x402_enabled /\ ~settings.debug
    /\ probe.proof.amount = PRICING.direction
    /\ probe.expected_amount = PRICING.backtest
    /\ probe.result = TRUE

\* C23: for every decorated endpoint, the object the wrapper picks up to
\* read the payment header from is the HTTP Request or None, never the parsed
\* body, and the header lookup does not fail.
C23_WrapperReadsHttpRequest ==
    \A i \in Ids :
        (Gated(i) /\ requests[i].endpoint \in PaywalledEndpoints)
        => LET body   == BodyModel(requests[i].endpoint, requests[i].json)
               picked == FindRequest(<<>>, [request |-> body])
           IN  /\ picked = NoObject \/ picked.cls = "Request"
               /\ Outcome(settings, requests[i]).exc # AttributeError

\* C22: a request to a priced endpoint whose body is outside the endpoint's
\* model (unsupported asset, unsupported timeframe, more than 10 bulk assets)
\* is answered 422 with or without a valid proof, and neither the gate's
\* proof check nor the protected operation runs for it.
C22_ValidationPrecedesGate == \A i \in Ids :
    (Responded(i) /\ ~ValidBody(i))
    => /\ responses[i].status = 422
       /\ trace[i].calls = 0
       /\ trace[i].validations = 0

\* The same unsupported timeframe was sent twice to an enforcing service,
\* once without header and once with TxHash, and both were answered.
C22_Witness == \E i, j \in Ids :
    /\ Responded(i) /\ Responded(j) /\ GatingOn /\ ~settings.debug
    /\ ~ValidBody(i) /\ requests[i].endpoint = "direction"
    /\ requests[i].json.timeframe = BadTimeframe
    /\ requests[j].endpoint = requests[i].endpoint /\ requests[j].json = requests[i].json
    /\ requests[i].headers = NoHeaders /\ requests[j].headers = WithProof(TxHash)
    /\ responses[i].status = 422 /\ responses[j].status = 422

\* C26: in every payment request generate_payment_request builds for a
\* network of the chain-id table, the network field and the asset field name
\* the same chain id, and the asset's token address is the USDC contract of
\* the configured network.
C26_AssetOnConfiguredNetwork ==
    (quote.done /\ settings.x402_network \in DOMAIN chain_ids)
    => LET offer == quote.request.accepts[1]
       IN  /\ offer.network = "eip155:" \o IntStr(chain_ids[settings.x402_network])
           /\ settings.x402_network \in DOMAIN usdc_addresses
           /\ offer.asset = offer.network \o "/erc20:" \o usdc_addresses[settings.x402_network]

\* C27: for every network name of EVM_NETWORK_TO_CHAIN_ID, _get_chain_id
\* returns the chain id that table lists, and so does the network field of
\* the payment request built for it.
C27_ChainIdAgreesWithLibrary ==
    (quote.done /\ settings.x402_network \in DOMAIN EVM_NETWORK_TO_CHAIN_ID)
    => LET listed == EVM_NETWORK_TO_CHAIN_ID[settings.x402_network]
       IN  /\ _get_chain_id(settings.x402_network) = listed
           /\ quote.request.accepts[1].network = "eip155:" \o IntStr(listed)

\* The calls of the log that are prediction calls.
IsPrediction(i) == log[i].op \in PredictionEndpoints

SameCall(i, j) ==
    /\ log[i].op = log[j].op
    /\ log[i].asset = log[j].asset
    /\ log[i].timeframe = log[j].timeframe

ClearedBetween(i, j) == \E k \in i..j : log[k].op = "clear_cache"

\* C28: two calls of the same prediction method with the same (asset,
\* timeframe), with no clear_cache between them and the second before the
\* first one's entry expires, return the identical result, and the second
\* runs no simulation.
C28_CachedCallIdempotent == \A i, j \in 1..Len(log) :
    (i < j /\ IsPrediction(i) /\ SameCall(i, j) /\ ~ClearedBetween(i, j)
       /\ log[j].at < log[i].expires)
    => /\ log[j].result = log[i].result
       /\ log[j].simulations = 0

\* A full report was asked for twice, the second time later but before it
\* expired, after a single-type call that came between.
C28_Witness == \E i, j \in 1..Len(log) :
    /\ i + 1 < j /\ log[i].op = "full" /\ SameCall(i, j) /\ ~ClearedBetween(i, j)
    /\ log[i].at < log[j].at /\ log[j].at < log[i].expires
    /\ log[i].simulations = 4 /\ log[j].simulations = 0

\* The entry of method m for the pair of call i, if the cache holds one now.
Holds(m, i) == Contains(cache, _get_cache_key(m, log[i].asset, log[i].timeframe), clock)

Held(m, i) == GetItem(cache, _get_cache_key(m, log[i].asset, log[i].timeframe)).value

\* C29: after predict_full the cache holds entries for direction, target,
\* confidence and full of the pair and the report embeds exactly those
\* entries; a following single-type call for the pair, before the report
\* expires and with no clear between, returns the value the report embeds.
C29_FullReportConsistent ==
    /\ (Len(log) > 0 /\ log[Len(log)].op = "full" /\ log[Len(log)].at = clock)
       => LET i == Len(log)
          IN  /\ \A m \in PredictionEndpoints : Holds(m, i)
              /\ Held("full", i) = log[i].result
              /\ \A m \in PredictionEndpoints \ {"full"} : Held(m, i) = log[i].result[m]
    /\ \A i, j \in 1..Len(log) :
         (i < j /\ log[i].op = "full" /\ log[j].op \in PredictionEndpoints \ {"full"}
            /\ log[j].asset = log[i].asset /\ log[j].timeframe = log[i].timeframe
            /\ ~ClearedBetween(i, j) /\ log[j].at < log[i].expires)
         => log[j].result = log[i].result[log[j].op]

\* C30: the size get_cache_stats reports never exceeds maxsize; right after
\* clear_cache it is 0, and the prediction call that follows a clear_cache
\* computes everything it returns anew, taking nothing from the cache.
C30_SizeBoundedAndClearEmpties ==
    /\ get_cache_stats(cache, clock).size <= maxsize
    /\ \A i \in 1..Len(log) : log[i].size <= maxsize
    /\ \A i \in 1..Len(log) :
         log[i].op = "clear_cache"
         => /\ log[i].size = 0
            /\ (i < Len(log) /\ IsPrediction(i + 1))
               => /\ log[i + 1].simulations = (IF log[i + 1].op = "full" THEN 4 ELSE 1)
                  /\ log[i + 1].result.timestamp = log[i + 1].at
                  /\ log[i + 1].size = (IF log[i + 1].op = "full" THEN 4 ELSE 1)

\* A full report was cached, the cache was cleared at the same time, and the
\* report was asked for again.
C30_Witness ==
    /\ Len(log) = 3
    /\ log[1].op = "full" /\ log[1].size = 4
    /\ log[2].op = "clear_cache" /\ log[2].at = log[1].at /\ log[2].size = 0
    /\ log[3].op = "full" /\ log[3].asset = log[1].asset /\ log[3].at = log[2].at
    /\ log[3].simulations = 4
    /\ get_cache_stats(cache, clock).size = 4

====
